---- MODULE Spec2Model ----
(***************************************************************************)
(* Exam planning: the seat scheduler (01-scheduleTestInRooms.py) and the   *)
(* invigilation-duty allocator with its one-hop repair                     *)
(* (02a-allocateExaminationDuty.py), as one state machine.                 *)
(*                                                                         *)
(* Identities are modelled by what the code does with them:                *)
(*   - a course sNo, a room name and a USN are naturals (the rank of the   *)
(*     string in Python's string order); 0 stands for None / "" .          *)
(*   - a slot is its index in SLOT_ORDER (1..4).                           *)
(*   - a normalized faculty name is a sequence of letters (naturals), so   *)
(*     that equality, substring containment and string order are computed. *)
(***************************************************************************)
EXTENDS Integers, Sequences, FiniteSets, TLC

VARIABLES
    pc,               \* position of the batch run
    rooms,            \* load_rooms(): list of {room, A, B}
    students,         \* load_students(): list of {USN, tests}
    schedule,         \* load_schedule(): list of sessions {date, slot, courses}
    si,               \* main(): index of the session being scheduled
    course_students,  \* schedule_for_slot_use_both: sNo -> deque of USNs
    course_order,     \* schedule_for_slot_use_both: courses by descending demand
    room_blocks,      \* schedule_for_slot_use_both: per room, blocks A and B
    placed,           \* number of students popped from the deques in this call
    outcome,          \* per session: "pending", "ok", "skipped", "insufficient", "unplaceable"
    seat_table,       \* per session: rows of its assignments_*.csv (<<>> when no file)
    norm_order,       \* faculty roster (normalized names, roster order)
    course_info,      \* sNo -> {ic_norm, date, slot}
    session_blocks,   \* read_assignments_dir(): set of occupied (date, slot, sNo, room, block)
    invig,            \* allocate_strict: the duty rows, in processing order
    assigned_slots,   \* norm -> set of <<date, slot>>
    faculty_load,     \* norm -> number of direct assignments
    idx,              \* attempt_one_hop_shifts: index of the row being examined
    resolved          \* attempt_one_hop_shifts: list of committed shifts

seatVars == <<rooms, students, schedule, si, course_students, course_order,
              room_blocks, placed, outcome, seat_table>>
dutyVars == <<norm_order, course_info, session_blocks, invig, assigned_slots,
              faculty_load, idx, resolved>>
vars == <<pc, seatVars, dutyVars>>

(***************************************************************************)
(* Bounds of the model.                                                    *)
(***************************************************************************)
MaxCap == 2          \* largest capacity of one block
MaxStudents == 3     \* largest number of eligible students

RoomIds == <<1, 2>>  \* the rooms of rooms.csv, at most this many
NoCourse == 0        \* None / "" in a sNo field
NoUSN == 0           \* "" in a USN field
BlockNames == <<"A", "B">>

(***************************************************************************)
(* Generic helpers.                                                        *)
(***************************************************************************)
RECURSIVE SumSeq(_)
SumSeq(s) == IF s = <<>> THEN 0 ELSE Head(s) + SumSeq(Tail(s))

RECURSIVE Flatten(_)
Flatten(ss) == IF ss = <<>> THEN <<>> ELSE Head(ss) \o Flatten(Tail(ss))

Range(s) == {s[i] : i \in DOMAIN s}

Min2(a, b) == IF a <= b THEN a ELSE b

OtherBlock(bk) == IF bk = "A" THEN "B" ELSE "A"

(***************************************************************************)
(* 01-scheduleTestInRooms.py : schedule_for_slot_use_both                  *)
(***************************************************************************)

\* Mutant: "all" for "any" in the filter of line 230.
StudentsInSlotAll(courses) ==
    SelectSeq(students, LAMBDA s : s.tests \subseteq Range(courses))

\* main(), line 230: the students with a test among the session's courses.
StudentsInSlot(courses) ==
    SelectSeq(students, LAMBDA s : s.tests \cap Range(courses) # {})

\* lines 122-126: sNo -> deque of the USNs of the students registered for sNo.
CourseStudentsOf(courses, studs) ==
    [sno \in Range(courses) |->
        LET reg == SelectSeq(studs, LAMBDA s : sno \in s.tests)
        IN  [i \in 1..Len(reg) |-> reg[i].USN]]

\* line 128
TotalSeats == SumSeq([i \in 1..Len(rooms) |-> rooms[i].A + rooms[i].B])

\* line 129
TotalNeeded(cs) ==
    LET RECURSIVE Sum(_)
        Sum(S) == IF S = {} THEN 0
                  ELSE LET x == CHOOSE y \in S : TRUE IN Len(cs[x]) + Sum(S \ {x})
    IN  Sum(DOMAIN cs)

\* Mutant: the capacity test of line 130 left out.
InsufficientSeatsNever(cs) == FALSE

\* line 130: the capacity test that raises "Insufficient seats".
InsufficientSeats(cs) == TotalNeeded(cs) > TotalSeats

\* lines 135-143
InitialRoomBlocks ==
    [i \in 1..Len(rooms) |->
        [room |-> rooms[i].room,
         A |-> [sNo |-> NoCourse, capacity |-> rooms[i].A, assigned |-> <<>>],
         B |-> [sNo |-> NoCourse, capacity |-> rooms[i].B, assigned |-> <<>>]]]

\* line 145: sorted(keys, key=len, reverse=True); Python's sort is stable, so
\* courses of equal demand keep the order of the session's course list.
RECURSIVE StableSortDesc(_, _)
StableSortDesc(keys, cs) ==
    IF keys = <<>> THEN <<>>
    ELSE LET best == CHOOSE i \in 1..Len(keys) :
                        /\ \A j \in 1..Len(keys) : Len(cs[keys[j]]) <= Len(cs[keys[i]])
                        /\ \A j \in 1..(i-1) : Len(cs[keys[j]]) < Len(cs[keys[i]])
             rest == [j \in 1..(Len(keys)-1) |-> IF j < best THEN keys[j] ELSE keys[j+1]]
         IN  <<keys[best]>> \o StableSortDesc(rest, cs)

CourseOrderOf(courses, cs) == StableSortDesc(courses, cs)

\* lines 147-148: the course the loops are at: the first of course_order that
\* still has students in its deque (NoCourse when every deque is empty).
CurrentOf(order, cs) ==
    IF \E i \in 1..Len(order) : cs[order[i]] # <<>>
    THEN order[CHOOSE i \in 1..Len(order) :
            /\ cs[order[i]] # <<>>
            /\ \A j \in 1..(i-1) : cs[order[j]] = <<>>]
    ELSE NoCourse

CurrentCourse == CurrentOf(course_order, course_students)

CapLeft(rb, ri, bk) == rb[ri][bk].capacity - Len(rb[ri][bk].assigned)

\* Mutant: the pairing test of line 154 left out.
PairedBlockNeverTaken(rb, ri, bk, sno) == FALSE

\* line 154: a block is passed over when the other block of its room is
\* committed (block["sNo"]) to the course being placed.
PairedBlockTaken(rb, ri, bk, sno) ==
    /\ rb[ri][OtherBlock(bk)].sNo # NoCourse
    /\ rb[ri][OtherBlock(bk)].sNo = sno

\* lines 149-159: the candidates <<ri, bk, cap_left>>, rooms in list order,
\* block A before block B.
Candidates(rb, sno) ==
    LET all == [k \in 1..(2 * Len(rb)) |->
                   <<(k + 1) \div 2, BlockNames[2 - (k % 2)]>>]
        ok(c) == /\ ~PairedBlockTaken(rb, c[1], c[2], sno)
                 /\ CapLeft(rb, c[1], c[2]) > 0
        kept == SelectSeq(all, ok)
    IN  [k \in 1..Len(kept) |-> <<kept[k][1], kept[k][2], CapLeft(rb, kept[k][1], kept[k][2])>>]

\* Mutant: the first candidate in list order, the sort of line 164 left out.
BestCandidateFirst(cands) == cands[1]

\* lines 164-165: candidates.sort(key=cap_left, reverse=True)[0]; the sort is
\* stable, so it is the first candidate of largest remaining capacity.
BestCandidate(cands) ==
    cands[CHOOSE i \in 1..Len(cands) :
            /\ \A j \in 1..Len(cands) : cands[j][3] <= cands[i][3]
            /\ \A j \in 1..(i-1) : cands[j][3] < cands[i][3]]

\* Mutant: no student is taken from the deque.
TakeCountNone(cap_left, remaining) == 0

\* Mutant: every remaining student is taken, whatever the capacity left.
TakeCountAll(cap_left, remaining) == remaining

\* line 167
TakeCount(cap_left, remaining) == Min2(cap_left, remaining)

\* lines 171-172: the block is committed to a course on its first placement only.
CommittedAfter(block, newAssigned, sno) ==
    IF block.sNo = NoCourse /\ newAssigned # <<>> THEN sno ELSE block.sNo

\* lines 165-172: one iteration of the while loop, on the chosen candidate.
PlaceInto(rb, cs, sno) ==
    LET c == BestCandidate(Candidates(rb, sno))
        ri == c[1]
        bk == c[2]
        take == TakeCount(c[3], Len(cs[sno]))
        block == rb[ri][bk]
        moved == [k \in 1..take |-> [USN |-> cs[sno][k], sNo |-> sno]]
        newAssigned == block.assigned \o moved
        newBlock == [block EXCEPT !.assigned = newAssigned,
                                  !.sNo = CommittedAfter(block, newAssigned, sno)]
    IN  [rb |-> [rb EXCEPT ![ri][bk] = newBlock],
         cs |-> [cs EXCEPT ![sno] = SubSeq(cs[sno], take + 1, Len(cs[sno]))],
         take |-> take]

\* lines 174-211: one row per seat of every block, occupied or empty.
BlockRows(rb, ri, bk) ==
    LET block == rb[ri][bk]
    IN  [i \in 1..block.capacity |->
            IF i <= Len(block.assigned)
            THEN [Room |-> rb[ri].room, Block |-> bk, SeatNo |-> i,
                  USN |-> block.assigned[i].USN, sNo |-> block.assigned[i].sNo]
            ELSE [Room |-> rb[ri].room, Block |-> bk, SeatNo |-> i,
                  USN |-> NoUSN, sNo |-> NoCourse]]

BuildAssignments(rb) ==
    Flatten([k \in 1..(2 * Len(rb)) |->
                BlockRows(rb, (k + 1) \div 2, BlockNames[2 - (k % 2)])])

(***************************************************************************)
(* 01-scheduleTestInRooms.py : main, one action per outcome of a session   *)
(***************************************************************************)
SessionCourses == schedule[si].courses

\* lines 234-236: more students than seats, the session is skipped.
SkipSession ==
    /\ pc = "main" /\ si <= Len(schedule)
    /\ Len(StudentsInSlot(SessionCourses)) > TotalSeats
    /\ outcome' = [outcome EXCEPT ![si] = "skipped"]
    /\ si' = si + 1
    /\ placed' = 0
    /\ UNCHANGED <<pc, rooms, students, schedule, course_students, course_order,
                   room_blocks, seat_table, dutyVars>>

\* lines 238, 122-133, 239-241: the call raises "Insufficient seats".
RaiseInsufficient ==
    /\ pc = "main" /\ si <= Len(schedule)
    /\ Len(StudentsInSlot(SessionCourses)) <= TotalSeats
    /\ LET cs == CourseStudentsOf(SessionCourses, StudentsInSlot(SessionCourses))
       IN  /\ InsufficientSeats(cs)
           /\ course_students' = cs
    /\ outcome' = [outcome EXCEPT ![si] = "insufficient"]
    /\ si' = si + 1
    /\ placed' = 0
    /\ UNCHANGED <<pc, rooms, students, schedule, course_order,
                   room_blocks, seat_table, dutyVars>>

\* lines 238, 122-145: the call passes the capacity test and sets up the loops.
BeginPlacement ==
    /\ pc = "main" /\ si <= Len(schedule)
    /\ Len(StudentsInSlot(SessionCourses)) <= TotalSeats
    /\ LET cs == CourseStudentsOf(SessionCourses, StudentsInSlot(SessionCourses))
       IN  /\ ~InsufficientSeats(cs)
           /\ course_students' = cs
           /\ course_order' = CourseOrderOf(SessionCourses, cs)
    /\ room_blocks' = InitialRoomBlocks
    /\ placed' = 0
    /\ pc' = "place"
    /\ UNCHANGED <<rooms, students, schedule, si, outcome, seat_table, dutyVars>>

\* lines 148-172: one iteration of the while loop that finds a candidate.
PlaceStep ==
    /\ pc = "place" /\ CurrentCourse # NoCourse
    /\ Candidates(room_blocks, CurrentCourse) # <<>>
    /\ LET r == PlaceInto(room_blocks, course_students, CurrentCourse)
       IN  /\ room_blocks' = r.rb
           /\ course_students' = r.cs
           /\ placed' = placed + r.take
    /\ UNCHANGED <<pc, rooms, students, schedule, si, course_order, outcome,
                   seat_table, dutyVars>>

\* lines 160-163, 239-241: no candidate, the call raises "Unable to place".
RaiseUnplaceable ==
    /\ pc = "place" /\ CurrentCourse # NoCourse
    /\ Candidates(room_blocks, CurrentCourse) = <<>>
    /\ outcome' = [outcome EXCEPT ![si] = "unplaceable"]
    /\ si' = si + 1
    /\ pc' = "main"
    /\ UNCHANGED <<rooms, students, schedule, course_students, course_order,
                   room_blocks, placed, seat_table, dutyVars>>

\* lines 174-211, 243-251: every deque is empty, the rows are built and written.
ReturnAssignments ==
    /\ pc = "place" /\ CurrentCourse = NoCourse
    /\ seat_table' = [seat_table EXCEPT ![si] = BuildAssignments(room_blocks)]
    /\ outcome' = [outcome EXCEPT ![si] = "ok"]
    /\ si' = si + 1
    /\ pc' = "main"
    /\ UNCHANGED <<rooms, students, schedule, course_students, course_order,
                   room_blocks, placed, dutyVars>>

\* line 262: every session has been handled.
SchedulingFinished ==
    /\ pc = "main" /\ si > Len(schedule)
    /\ pc' = "scheduled"
    /\ UNCHANGED <<seatVars, dutyVars>>

(***************************************************************************)
(* 02a-allocateExaminationDuty.py : names, slots, loaders                  *)
(***************************************************************************)
MultiRoomLimit == 2   \* "if room_count > 2"
NoFaculty == <<>>     \* '' in Assigned-Faculty, and the empty normalized name

\* line 29: SLOT_ORDER, a slot being its index in it.
SlotIndex == 1..4

\* line 30: ADJACENT
Adjacent ==
    [s \in SlotIndex |->
        CASE s = 1 -> {2}
          [] s = 2 -> {1, 3}
          [] s = 3 -> {2, 4}
          [] s = 4 -> {3}]

\* Python's "a in b" on strings: a is a contiguous part of b.
IsSubstr(a, b) ==
    \E k \in 0..(Len(b) - Len(a)) : \A i \in 1..Len(a) : b[k + i] = a[i]

\* Python's string order, used by sorted(..., key=lambda n: (load, n)).
StrLess(a, b) ==
    \/ /\ Len(a) < Len(b)
       /\ \A i \in 1..Len(a) : a[i] = b[i]
    \/ \E k \in 1..Min2(Len(a), Len(b)) :
          /\ \A i \in 1..(k-1) : a[i] = b[i]
          /\ a[k] < b[k]

\* Mutant: the coordinator test by strict equality only.
IcMatchesExact(ic_norm, norm) ==
    /\ ic_norm # NoFaculty
    /\ norm # NoFaculty
    /\ ic_norm = norm

\* lines 211, 222, 271, 310: the coordinator test on normalized names.
IcMatches(ic_norm, norm) ==
    /\ ic_norm # NoFaculty
    /\ norm # NoFaculty
    /\ (ic_norm = norm \/ IsSubstr(ic_norm, norm) \/ IsSubstr(norm, ic_norm))

\* lines 158-169: sNo_ic_norm.get(sNo, '')
SNoIcNorm(sNo) ==
    IF sNo \in DOMAIN course_info THEN course_info[sNo].ic_norm ELSE NoFaculty

\* Mutant: only the coordinator's own sessions, the loop of lines 175-176 left out.
IcBlockedSlotsOwnOnly(norm) ==
    {<<course_info[c].date, course_info[c].slot>>
       : c \in {x \in DOMAIN course_info :
                   /\ course_info[x].ic_norm # NoFaculty
                   /\ course_info[x].ic_norm = norm}}

\* lines 170-176: ic_blocked_slots.get(norm, set()): the sessions of the courses
\* whose coordinator's normalized name is exactly norm, and their neighbours.
IcBlockedSlots(norm) ==
    UNION {{<<course_info[c].date, course_info[c].slot>>}
             \cup {<<course_info[c].date, adj>> : adj \in Adjacent[course_info[c].slot]}
           : c \in {x \in DOMAIN course_info :
                       /\ course_info[x].ic_norm # NoFaculty
                       /\ course_info[x].ic_norm = norm}}

\* lines 128-147: the occupied (date, slot, sNo, room, block) of the seat files,
\* each with the number of its rows that hold a student.
BlockCountsOf(tables) ==
    LET keys == UNION {{[date |-> schedule[k].date, slot |-> schedule[k].slot,
                         sNo |-> tables[k][i].sNo, room |-> tables[k][i].Room,
                         block |-> tables[k][i].Block]
                        : i \in {j \in 1..Len(tables[k]) :
                                    /\ tables[k][j].sNo # NoCourse
                                    /\ tables[k][j].USN # NoUSN}}
                      : k \in {n \in 1..Len(schedule) : outcome[n] = "ok"}}
        cnt(key) == Cardinality(
            UNION {{<<k, i>> : i \in {j \in 1..Len(tables[k]) :
                                  /\ tables[k][j].sNo = key.sNo
                                  /\ tables[k][j].USN # NoUSN
                                  /\ tables[k][j].Room = key.room
                                  /\ tables[k][j].Block = key.block}}
                   : k \in {n \in 1..Len(schedule) :
                               /\ outcome[n] = "ok"
                               /\ schedule[n].date = key.date
                               /\ schedule[n].slot = key.slot}})
    IN  {[date |-> key.date, slot |-> key.slot, sNo |-> key.sNo, room |-> key.room,
          block |-> key.block, count |-> cnt(key)] : key \in keys}

BlockIndex(bk) == IF bk = "A" THEN 1 ELSE 2

\* lines 188, 190: sessions by (date, slot index), blocks by (room, block, sNo).
BlockBefore(x, y) ==
    \/ x.date < y.date
    \/ x.date = y.date /\ x.slot < y.slot
    \/ x.date = y.date /\ x.slot = y.slot /\ x.room < y.room
    \/ x.date = y.date /\ x.slot = y.slot /\ x.room = y.room
       /\ BlockIndex(x.block) < BlockIndex(y.block)
    \/ x.date = y.date /\ x.slot = y.slot /\ x.room = y.room
       /\ x.block = y.block /\ x.sNo < y.sNo

RECURSIVE SortBlocks(_)
SortBlocks(S) ==
    IF S = {} THEN <<>>
    ELSE LET m == CHOOSE x \in S : \A y \in S \ {x} : BlockBefore(x, y)
         IN  <<m>> \o SortBlocks(S \ {m})

\* lines 189-191: the blocks in the order allocate_strict visits them.
WorkList == SortBlocks(session_blocks)

\* lines 213, 272, 311: the number of distinct rooms sNo occupies in the session.
RoomCount(date, slot, sNo) ==
    Cardinality({b.room : b \in {x \in session_blocks :
                    x.date = date /\ x.slot = slot /\ x.sNo = sNo}})

\* lines 210-215: the coordinator is left out when the course uses > 2 rooms.
IcExcluded(norm, date, slot, sNo) ==
    /\ IcMatches(SNoIcNorm(sNo), norm)
    /\ RoomCount(date, slot, sNo) > MultiRoomLimit

\* lines 203-208: a duty in a neighbouring slot of the same date.
HasNeighbourDuty(as, norm, date, slot) ==
    \E adj \in Adjacent[slot] : <<date, adj>> \in as[norm]

\* Mutant: the same-session test of lines 199-200 left out.
IsEligibleNoSameSession(as, norm, date, slot, sNo) ==
    /\ <<date, slot>> \notin IcBlockedSlots(norm)
    /\ ~HasNeighbourDuty(as, norm, date, slot)
    /\ ~IcExcluded(norm, date, slot, sNo)

\* lines 198-216
IsEligible(as, norm, date, slot, sNo) ==
    /\ <<date, slot>> \notin as[norm]
    /\ <<date, slot>> \notin IcBlockedSlots(norm)
    /\ ~HasNeighbourDuty(as, norm, date, slot)
    /\ ~IcExcluded(norm, date, slot, sNo)

\* lines 218-226: non-coordinators first, coordinators only when there is none.
CandidatesOf(eligible, sNo) ==
    LET non_ic == SelectSeq(eligible, LAMBDA n : ~IcMatches(SNoIcNorm(sNo), n))
        ic_cands == SelectSeq(eligible, LAMBDA n : IcMatches(SNoIcNorm(sNo), n))
    IN  IF non_ic # <<>> THEN non_ic ELSE ic_cands

\* Mutant: the sort of line 230 by name alone.
LoadNameBeforeNameOnly(load, a, b) == StrLess(a, b)

\* line 230: sorted(candidates, key=lambda n: (faculty_load.get(n,0), n))[0]
LoadNameBefore(load, a, b) ==
    \/ load[a] < load[b]
    \/ load[a] = load[b] /\ StrLess(a, b)

Chosen(candidates, load) ==
    IF candidates = <<>> THEN NoFaculty
    ELSE CHOOSE n \in Range(candidates) :
            \A m \in Range(candidates) \ {n} : LoadNameBefore(load, n, m)

DutyRow(b, fac, kind, from) ==
    [Date |-> b.date, Slot |-> b.slot, sNo |-> b.sNo, Room |-> b.room,
     Block |-> b.block, Faculty |-> fac, Note |-> [kind |-> kind, from |-> from]]

(***************************************************************************)
(* 02a-allocateExaminationDuty.py : main and allocate_strict               *)
(***************************************************************************)

\* lines 511, 526, 182-186: the seat files are read and the allocation starts.
ReadAssignmentsDir ==
    /\ pc = "scheduled"
    /\ session_blocks' = BlockCountsOf(seat_table)
    /\ pc' = "alloc"
    /\ UNCHANGED <<seatVars, norm_order, course_info, invig, assigned_slots,
                   faculty_load, idx, resolved>>

\* lines 197-216: the roster members eligible for block b, in roster order.
EligibleFor(b) ==
    SelectSeq(norm_order, LAMBDA n : IsEligible(assigned_slots, n, b.date, b.slot, b.sNo))

\* lines 191-237: one block of the work list gets its duty row.
AllocateBlock ==
    /\ pc = "alloc" /\ Len(invig) < Cardinality(session_blocks)
    /\ \E b \in {WorkList[Len(invig) + 1]} :
       \E chosen \in {Chosen(CandidatesOf(EligibleFor(b), b.sNo), faculty_load)} :
           IF b.count <= 0
           THEN /\ invig' = Append(invig, DutyRow(b, NoFaculty, "no-students", NoFaculty))
                /\ UNCHANGED <<assigned_slots, faculty_load>>
           ELSE IF chosen # NoFaculty
           THEN /\ assigned_slots' = [assigned_slots EXCEPT
                                         ![chosen] = @ \cup {<<b.date, b.slot>>}]
                /\ faculty_load' = [faculty_load EXCEPT ![chosen] = @ + 1]
                /\ invig' = Append(invig, DutyRow(b, chosen, "", NoFaculty))
           ELSE /\ invig' = Append(invig, DutyRow(b, NoFaculty, "unassigned-strict", NoFaculty))
                /\ UNCHANGED <<assigned_slots, faculty_load>>
    /\ UNCHANGED <<pc, seatVars, norm_order, course_info, session_blocks, idx, resolved>>

\* lines 239, 530: allocate_strict returns, attempt_one_hop_shifts starts.
AllocateReturn ==
    /\ pc = "alloc" /\ Len(invig) = Cardinality(session_blocks)
    /\ pc' = "repair"
    /\ idx' = 1
    /\ UNCHANGED <<seatVars, norm_order, course_info, session_blocks, invig,
                   assigned_slots, faculty_load, resolved>>

(***************************************************************************)
(* 02a-allocateExaminationDuty.py : attempt_one_hop_shifts                 *)
(***************************************************************************)

\* Mutant: the neighbouring-slot test of lines 252-256 left out.
has_adj_conflict_never(assigned_set) == FALSE

\* lines 248-257
has_adj_conflict(assigned_set) ==
    \E x \in assigned_set : \E a \in Adjacent[x[2]] : <<x[1], a>> \in assigned_set

\* lines 265-280: the faculty kept from the block only by a neighbouring duty.
IsPossibleCandidate(as, norm, date, slot, sNo) ==
    /\ <<date, slot>> \notin as[norm]
    /\ <<date, slot>> \notin IcBlockedSlots(norm)
    /\ ~IcExcluded(norm, date, slot, sNo)
    /\ HasNeighbourDuty(as, norm, date, slot)

\* line 283: the neighbouring slots in which cand holds a duty, in the order the
\* set ADJACENT[slot] is iterated (ascending or descending slot).
BlockingAdjs(as, cand, date, slot, descending) ==
    LET lo == IF slot - 1 \in Adjacent[slot] /\ <<date, slot - 1>> \in as[cand]
              THEN <<slot - 1>> ELSE <<>>
        hi == IF slot + 1 \in Adjacent[slot] /\ <<date, slot + 1>> \in as[cand]
              THEN <<slot + 1>> ELSE <<>>
    IN  IF descending THEN hi \o lo ELSE lo \o hi

\* lines 285-300: the first duty row of (date, adj_slot) that names cand; 0 if none.
TargetIndex(rows, cand, date, adj_slot) ==
    LET hits == {i \in 1..Len(rows) :
                    /\ rows[i].Date = date /\ rows[i].Slot = adj_slot
                    /\ rows[i].Faculty # NoFaculty
                    /\ rows[i].Faculty = cand}
    IN  IF hits = {} THEN 0 ELSE CHOOSE i \in hits : \A j \in hits : i <= j

\* Mutant: the adjacency test of alt's new slot set (lines 316-319) left out.
AltOkNoAltAdjacency(as, alt, cand, date, slot, adj_slot, target_sNo) ==
    /\ alt # cand
    /\ <<date, adj_slot>> \notin IcBlockedSlots(alt)
    /\ ~IcExcluded(alt, date, adj_slot, target_sNo)
    /\ <<date, adj_slot>> \notin as[alt]
    /\ ~has_adj_conflict((as[cand] \ {<<date, adj_slot>>}) \cup {<<date, slot>>})

\* lines 305-325: may alt take over cand's duty of (date, adj_slot) for target_sNo,
\* cand moving to (date, slot)?
AltOk(as, alt, cand, date, slot, adj_slot, target_sNo) ==
    /\ alt # cand
    /\ <<date, adj_slot>> \notin IcBlockedSlots(alt)
    /\ ~IcExcluded(alt, date, adj_slot, target_sNo)
    /\ <<date, adj_slot>> \notin as[alt]
    /\ ~has_adj_conflict(as[alt] \cup {<<date, adj_slot>>})
    /\ ~has_adj_conflict((as[cand] \ {<<date, adj_slot>>}) \cup {<<date, slot>>})

\* lines 303-327: the first alt of the roster that passes; NoFaculty if none.
AltFound(as, cand, date, slot, adj_slot, target_sNo) ==
    LET ok == SelectSeq(norm_order,
                 LAMBDA alt : AltOk(as, alt, cand, date, slot, adj_slot, target_sNo))
    IN  IF ok = <<>> THEN NoFaculty ELSE ok[1]

\* lines 282-344: the first (cand, adj_slot) in iteration order that has a target
\* row and an alt; found = FALSE when the loops end without a shift.
FindShift(rows, as, date, slot, sNo, descending) ==
    LET cands == SelectSeq(norm_order,
                    LAMBDA n : IsPossibleCandidate(as, n, date, slot, sNo))
        pairs == Flatten([i \in 1..Len(cands) |->
                    LET adjs == BlockingAdjs(as, cands[i], date, slot, descending)
                    IN  [k \in 1..Len(adjs) |-> <<cands[i], adjs[k]>>]])
        tgt(p) == TargetIndex(rows, p[1], date, p[2])
        alt(p) == AltFound(as, p[1], date, slot, p[2], rows[tgt(p)].sNo)
        good == SelectSeq(pairs, LAMBDA p : tgt(p) # 0 /\ alt(p) # NoFaculty)
    IN  IF good = <<>>
        THEN [found |-> FALSE]
        ELSE [found |-> TRUE, cand |-> good[1][1], adj_slot |-> good[1][2],
              target |-> tgt(good[1]), alt |-> alt(good[1])]

\* Mutant: the session left by cand stays in its assigned slots (lines 332-333 left out).
SlotsAfterShiftKeepsOld(as, cand, alt, date, slot, adj_slot) ==
    [n \in DOMAIN as |->
        IF n = cand THEN as[n] \cup {<<date, slot>>}
        ELSE IF n = alt THEN as[n] \cup {<<date, adj_slot>>}
        ELSE as[n]]

\* lines 332-334, 338: the assigned slots after the shift.
SlotsAfterShift(as, cand, alt, date, slot, adj_slot) ==
    [n \in DOMAIN as |->
        IF n = cand THEN (as[n] \ {<<date, adj_slot>>}) \cup {<<date, slot>>}
        ELSE IF n = alt THEN as[n] \cup {<<date, adj_slot>>}
        ELSE as[n]]

\* Mutant: the target row is emptied instead of being given to alt.
RowsAfterShiftTargetEmptied(rows, i, target, cand, alt) ==
    [k \in 1..Len(rows) |->
        IF k = i
        THEN [rows[k] EXCEPT !.Faculty = cand,
                             !.Note = [kind |-> "assigned-by-shift-from", from |-> alt]]
        ELSE IF k = target
        THEN [rows[k] EXCEPT !.Faculty = NoFaculty,
                             !.Note = [kind |-> "shifted-by-algo", from |-> NoFaculty]]
        ELSE rows[k]]

\* lines 335-336, 339-340: the duty rows after the shift.
RowsAfterShift(rows, i, target, cand, alt) ==
    [k \in 1..Len(rows) |->
        IF k = i
        THEN [rows[k] EXCEPT !.Faculty = cand,
                             !.Note = [kind |-> "assigned-by-shift-from", from |-> alt]]
        ELSE IF k = target
        THEN [rows[k] EXCEPT !.Faculty = alt,
                             !.Note = [kind |-> "shifted-by-algo", from |-> NoFaculty]]
        ELSE rows[k]]

\* lines 260-262: a row that has a faculty is passed over.
RepairSkip ==
    /\ pc = "repair" /\ idx <= Len(invig)
    /\ invig[idx].Faculty # NoFaculty
    /\ idx' = idx + 1
    /\ UNCHANGED <<pc, seatVars, norm_order, course_info, session_blocks, invig,
                   assigned_slots, faculty_load, resolved>>

\* Mutant: a row for which no shift is found is re-noted "unassigned-final".
RepairAttemptMarksFinal ==
    /\ pc = "repair" /\ idx <= Len(invig)
    /\ invig[idx].Faculty = NoFaculty
    /\ \E descending \in BOOLEAN :
       \E a \in {invig[idx]} :
       \E sh \in {FindShift(invig, assigned_slots, a.Date, a.Slot, a.sNo, descending)} :
              IF sh.found
              THEN /\ assigned_slots' = SlotsAfterShift(assigned_slots, sh.cand, sh.alt,
                                                        a.Date, a.Slot, sh.adj_slot)
                   /\ invig' = RowsAfterShift(invig, idx, sh.target, sh.cand, sh.alt)
                   /\ resolved' = Append(resolved,
                                     <<a.Date, a.Slot, sh.cand, sh.adj_slot, sh.alt>>)
              ELSE /\ invig' = [invig EXCEPT ![idx].Note.kind = "unassigned-final"]
                   /\ UNCHANGED <<assigned_slots, resolved>>
    /\ idx' = idx + 1
    /\ UNCHANGED <<pc, seatVars, norm_order, course_info, session_blocks, faculty_load>>

\* lines 260-344: one row without faculty: the shift is committed if one is found.
RepairAttempt ==
    /\ pc = "repair" /\ idx <= Len(invig)
    /\ invig[idx].Faculty = NoFaculty
    /\ \E descending \in BOOLEAN :
       \E a \in {invig[idx]} :
       \E sh \in {FindShift(invig, assigned_slots, a.Date, a.Slot, a.sNo, descending)} :
              IF sh.found
              THEN /\ assigned_slots' = SlotsAfterShift(assigned_slots, sh.cand, sh.alt,
                                                        a.Date, a.Slot, sh.adj_slot)
                   /\ invig' = RowsAfterShift(invig, idx, sh.target, sh.cand, sh.alt)
                   /\ resolved' = Append(resolved,
                                     <<a.Date, a.Slot, sh.cand, sh.adj_slot, sh.alt>>)
              ELSE UNCHANGED <<assigned_slots, invig, resolved>>
    /\ idx' = idx + 1
    /\ UNCHANGED <<pc, seatVars, norm_order, course_info, session_blocks, faculty_load>>

\* line 345: every row has been examined.
RepairReturn ==
    /\ pc = "repair" /\ idx > Len(invig)
    /\ pc' = "done"
    /\ UNCHANGED <<seatVars, dutyVars>>

(***************************************************************************)
(* Inputs and specifications                                               *)
(***************************************************************************)
NameA == <<1>>        \* a normalized name, e.g. "a"
NameAB == <<1, 2>>    \* a name that contains NameA and NameB, e.g. "ab"
NameB == <<2>>        \* e.g. "b"

\* The test lists a student can have: one course, both courses of the first
\* session, or a course of each session.
TestOptions == <<{1}, {2}, {1, 2}, {3}, {1, 3}>>

\* Student lists up to renaming of the students: USN i is the i-th student.
StudentLists ==
    UNION {{[i \in 1..n |-> [USN |-> i, tests |-> TestOptions[f[i]]]]
            : f \in {g \in [1..n -> 1..Len(TestOptions)] :
                        \A i \in 1..(n-1) : g[i] <= g[i+1]}}
           : n \in 0..MaxStudents}

\* load_rooms, line 66: the rooms sorted by descending A + B.
RoomLists ==
    UNION {{[i \in 1..n |-> [room |-> RoomIds[i], A |-> f[i][1], B |-> f[i][2]]]
            : f \in {g \in [1..n -> (0..MaxCap) \X (0..MaxCap)] :
                        \A i \in 1..(n-1) : g[i][1] + g[i][2] >= g[i+1][1] + g[i+1][2]}}
           : n \in 1..Len(RoomIds)}

\* Two sessions of one date in neighbouring slots: courses 1 and 2 (in either
\* order of schedule.csv), then course 3.
Schedules ==
    {<<[date |-> 1, slot |-> 1, courses |-> cs], [date |-> 1, slot |-> 2, courses |-> <<3>>]>>
     : cs \in {<<1, 2>>, <<2, 1>>}}

CourseInfoOf(sched, ic) ==
    [c \in UNION {Range(sched[k].courses) : k \in 1..Len(sched)} |->
        LET k == CHOOSE n \in 1..Len(sched) : c \in Range(sched[n].courses)
        IN  [ic_norm |-> ic[c], date |-> sched[k].date, slot |-> sched[k].slot]]

InitSeatLocals ==
    /\ si = 1
    /\ course_students = <<>>
    /\ course_order = <<>>
    /\ room_blocks = <<>>
    /\ placed = 0
    /\ outcome = [k \in 1..Len(schedule) |-> "pending"]
    /\ seat_table = [k \in 1..Len(schedule) |-> <<>>]

InitDutyLocals ==
    /\ invig = <<>>
    /\ assigned_slots = [n \in Range(norm_order) |-> {}]
    /\ faculty_load = [n \in Range(norm_order) |-> 0]
    /\ idx = 0
    /\ resolved = <<>>

\* The whole batch: the seat scheduler, then the duty allocator on its files.
Init ==
    /\ pc = "main"
    /\ rooms \in RoomLists
    /\ students \in StudentLists
    /\ schedule \in Schedules
    /\ InitSeatLocals
    /\ norm_order = <<NameA, NameB>>
    /\ course_info = CourseInfoOf(schedule, [c \in 1..3 |-> NoFaculty])
    /\ session_blocks = {}
    /\ InitDutyLocals

Next ==
    \/ SkipSession
    \/ RaiseInsufficient
    \/ BeginPlacement
    \/ PlaceStep
    \/ RaiseUnplaceable
    \/ ReturnAssignments
    \/ SchedulingFinished
    \/ ReadAssignmentsDir
    \/ AllocateBlock
    \/ AllocateReturn
    \/ RepairSkip
    \/ RepairAttempt
    \/ RepairReturn

Spec == Init /\ [][Next]_vars

\* The seat scheduler alone.
NextSeat ==
    \/ SkipSession
    \/ RaiseInsufficient
    \/ BeginPlacement
    \/ PlaceStep
    \/ RaiseUnplaceable
    \/ ReturnAssignments
    \/ SchedulingFinished

SpecSeat == Init /\ [][NextSeat]_vars

\* Room lists for the runs to completion: one room with a block of capacity 0,
\* one room with two full blocks, and two rooms with blocks of unequal capacity.
LiveRoomLists ==
    {rl \in RoomLists :
        [k \in 1..Len(rl) |-> <<rl[k].A, rl[k].B>>]
            \in {<<<<0, MaxCap>>>>, <<<<MaxCap, MaxCap>>>>,
                 <<<<MaxCap, 1>>, <<1, 1>>>>, <<<<1, 1>>, <<1, 0>>>>}}

InitLive ==
    /\ pc = "main"
    /\ rooms \in LiveRoomLists
    /\ students \in StudentLists
    /\ schedule \in Schedules
    /\ InitSeatLocals
    /\ norm_order = <<NameA, NameB>>
    /\ course_info = CourseInfoOf(schedule, [c \in 1..3 |-> NoFaculty])
    /\ session_blocks = {}
    /\ InitDutyLocals

\* The seat scheduler as the batch run executes it: a step that can be taken is taken.
SpecSeatLive == InitLive /\ [][NextSeat]_vars /\ WF_vars(NextSeat)

\* The duty allocator alone, on the occupied blocks of three sessions of one
\* date (slots 1, 2, 3), course c being held in slot c.
MaxRoomsPerCourse == 3

Layouts ==
    {{<<r, "A">> : r \in 1..n} : n \in 0..MaxRoomsPerCourse}
        \cup {{<<1, "A">>, <<1, "B">>}}

Names == {NameA, NameAB, NameB}

Rosters ==
    UNION {{f \in [1..n -> Names] : \A i, j \in 1..n : i # j => f[i] # f[j]}
           : n \in 1..Cardinality(Names)}

DutyCourses == 1..3

\* The coordinators of schedule.csv: no course has one, or one course has a
\* coordinator whose name is (or is contained in) a name of the roster.
IcChoices ==
    {[c \in DutyCourses |-> NoFaculty]}
        \cup {[c \in DutyCourses |-> IF c = k THEN n ELSE NoFaculty]
               : k \in DutyCourses, n \in Names}

\* The courses of the first two sessions have different coordinators.
IcPairs ==
    {ic \in [DutyCourses -> Names \cup {NoFaculty}] :
        /\ ic[1] # NoFaculty /\ ic[2] # NoFaculty /\ ic[1] # ic[2]
        /\ \A c \in DutyCourses \ {1, 2} : ic[c] = NoFaculty}

InitDuty ==
    /\ pc = "alloc"
    /\ rooms = <<>>
    /\ students = <<>>
    /\ schedule = <<>>
    /\ InitSeatLocals
    /\ norm_order \in Rosters
    /\ \E ic \in IcChoices \cup IcPairs :
          course_info = [c \in DutyCourses |-> [ic_norm |-> ic[c], date |-> 1, slot |-> c]]
    /\ \E lay \in [DutyCourses -> Layouts] :
          session_blocks =
              UNION {{[date |-> 1, slot |-> c, sNo |-> c, room |-> rb[1],
                       block |-> rb[2], count |-> 1] : rb \in lay[c]}
                     : c \in DutyCourses}
    /\ InitDutyLocals

NextDuty ==
    \/ AllocateBlock
    \/ AllocateReturn
    \/ RepairSkip
    \/ RepairAttempt
    \/ RepairReturn

SpecDuty == InitDuty /\ [][NextDuty]_vars

\* The repair alone, on the duty tables attempt_one_hop_shifts can be handed:
\* the rows of the work list, each without faculty or with a faculty that is
\* eligible for it after the rows before it, assigned_slots and faculty_load
\* being those of the rows.
RepairLayouts == {{<<r, "A">> : r \in 1..n} : n \in {1, MaxRoomsPerCourse}}

LastLayouts == {{}, {<<1, "A">>}}

RepairRosters == {r \in Rosters : Len(r) >= 2}

\* The tables that extend table t by a row for block b.
ExtendTable(t, b) ==
    {[invig |-> Append(t.invig, DutyRow(b, NoFaculty, "unassigned-strict", NoFaculty)),
      as |-> t.as, load |-> t.load]}
    \cup {[invig |-> Append(t.invig, DutyRow(b, n, "", NoFaculty)),
           as |-> [t.as EXCEPT ![n] = @ \cup {<<b.date, b.slot>>}],
           load |-> [t.load EXCEPT ![n] = @ + 1]]
          : n \in {m \in Range(norm_order) : IsEligible(t.as, m, b.date, b.slot, b.sNo)}}

RECURSIVE ExtendAll(_, _, _)
ExtendAll(S, work, k) ==
    IF k > Len(work) THEN S
    ELSE ExtendAll(UNION {ExtendTable(t, work[k]) : t \in S}, work, k + 1)

DutyTables ==
    ExtendAll({[invig |-> <<>>,
                as |-> [n \in Range(norm_order) |-> {}],
                load |-> [n \in Range(norm_order) |-> 0]]},
              WorkList, 1)

InitRepair ==
    /\ pc = "repair"
    /\ rooms = <<>>
    /\ students = <<>>
    /\ schedule = <<>>
    /\ InitSeatLocals
    /\ norm_order \in RepairRosters
    /\ \E ic \in IcChoices :
          course_info = [c \in DutyCourses |-> [ic_norm |-> ic[c], date |-> 1, slot |-> c]]
    /\ \E l1 \in RepairLayouts : \E l2 \in RepairLayouts : \E l3 \in LastLayouts :
          session_blocks =
              UNION {{[date |-> 1, slot |-> c, sNo |-> c, room |-> rb[1],
                       block |-> rb[2], count |-> 1] : rb \in <<l1, l2, l3>>[c]}
                     : c \in DutyCourses}
    /\ \E t \in DutyTables :
          /\ invig = t.invig
          /\ assigned_slots = t.as
          /\ faculty_load = t.load
    /\ idx = 1
    /\ resolved = <<>>

NextRepair ==
    \/ RepairSkip
    \/ RepairAttempt
    \/ RepairReturn

SpecRepair == InitRepair /\ [][NextRepair]_vars

\* The duty allocator on blocks of which some have no occupied seat (the
\* "cnt <= 0" of line 193): per session, the <<room, block, count>> of its blocks.
CountLayouts ==
    {{}, {<<1, "A", 0>>}, {<<1, "A", 1>>},
     {<<1, "A", 1>>, <<1, "B", 0>>}, {<<1, "A", 0>>, <<1, "B", 1>>},
     {<<1, "A", 1>>, <<1, "B", 1>>}}

InitCounts ==
    /\ pc = "alloc"
    /\ rooms = <<>>
    /\ students = <<>>
    /\ schedule = <<>>
    /\ InitSeatLocals
    /\ norm_order \in Rosters
    /\ \E ic \in IcChoices :
          course_info = [c \in DutyCourses |-> [ic_norm |-> ic[c], date |-> 1, slot |-> c]]
    /\ \E lay \in [DutyCourses -> CountLayouts] :
          session_blocks =
              UNION {{[date |-> 1, slot |-> c, sNo |-> c, room |-> rb[1],
                       block |-> rb[2], count |-> rb[3]] : rb \in lay[c]}
                     : c \in DutyCourses}
    /\ InitDutyLocals

SpecCounts == InitCounts /\ [][NextDuty]_vars

\* The text of the Date column for the date identities 1 and 2, in the
\* day-first format "%d-%m-%Y" the scheduler reads (characters as digits, the
\* separators and the common year left out): "01-09-2025" and "25-08-2025".
\* A date identity is the rank of its text in string order, the order of the
\* sort key x[0] of line 188.
DateText == << <<0, 1, 0, 9>>, <<2, 5, 0, 8>> >>

\* datetime.strptime(text, "%d-%m-%Y"): the calendar date, as 100 * month + day.
ParsedDate(d) ==
    LET t == DateText[d]
    IN  100 * (10 * t[3] + t[4]) + (10 * t[1] + t[2])

DateIds == 1..Len(DateText)

DateLayouts == {{}, {<<1, "A">>}, {<<1, "A">>, <<1, "B">>}, {<<2, "A">>, <<1, "B">>}}

\* The duty allocator on sessions of two dates: each course is held on one
\* date in Slot-1 or Slot-2, two courses possibly sharing a session.
InitDates ==
    /\ pc = "alloc"
    /\ rooms = <<>>
    /\ students = <<>>
    /\ schedule = <<>>
    /\ InitSeatLocals
    /\ norm_order \in RepairRosters
    /\ \E when \in [DutyCourses -> DateIds \X (1..2)] :
       \E lay \in [DutyCourses -> DateLayouts] :
          /\ course_info = [c \in DutyCourses |->
                               [ic_norm |-> NoFaculty, date |-> when[c][1], slot |-> when[c][2]]]
          /\ session_blocks =
                UNION {{[date |-> when[c][1], slot |-> when[c][2], sNo |-> c,
                         room |-> rb[1], block |-> rb[2], count |-> 1] : rb \in lay[c]}
                       : c \in DutyCourses}
    /\ InitDutyLocals

SpecDates == InitDates /\ [][NextDuty]_vars

(***************************************************************************)
(* Properties of the seat scheduler                                        *)
(***************************************************************************)
Blocks == {"A", "B"}

\* The rows of session k's seat table that hold a student of course c in (room, bk).
SeatsOf(k, room, bk, c) ==
    {i \in 1..Len(seat_table[k]) :
        /\ seat_table[k][i].Room = room /\ seat_table[k][i].Block = bk
        /\ seat_table[k][i].sNo = c /\ seat_table[k][i].USN # NoUSN}

RoomNamesUsed == {rooms[i].room : i \in 1..Len(rooms)}

\* The students registered for course c.
Registered(c) == {i \in 1..Len(students) : c \in students[i].tests}

\* The demand of session k: the sum over its courses of the registered students.
DemandOf(k) ==
    SumSeq([j \in 1..Len(schedule[k].courses) |->
               Cardinality(Registered(schedule[k].courses[j]))])

CapacityOfRooms == SumSeq([i \in 1..Len(rooms) |-> rooms[i].A + rooms[i].B])

\* C1: in every seat table returned for a session, no course has students
\* seated in both block A and block B of the same room.
C1_NoCourseInBothBlocks ==
    \A k \in 1..Len(schedule) :
        outcome[k] = "ok" =>
            \A room \in RoomNamesUsed : \A c \in Range(schedule[k].courses) :
                ~(SeatsOf(k, room, "A", c) # {} /\ SeatsOf(k, room, "B", c) # {})

\* C4: for every course of a session whose seat allocation returned without
\* error, the number of seats holding the course equals the number of students
\* registered for it, and each registered student occupies exactly one of them.
C4_DemandConservation ==
    \A k \in 1..Len(schedule) :
        outcome[k] = "ok" =>
            \A c \in Range(schedule[k].courses) :
                LET seats == {i \in 1..Len(seat_table[k]) : seat_table[k][i].sNo = c}
                IN  /\ Cardinality(seats) = Cardinality(Registered(c))
                    /\ \A u \in Registered(c) :
                          Cardinality({i \in seats :
                              seat_table[k][i].USN = students[u].USN}) = 1

\* A session returned with a course of two or more students, split over blocks.
C4_Witness ==
    \E k \in 1..Len(schedule) : \E c \in Range(schedule[k].courses) :
        /\ outcome[k] = "ok"
        /\ Cardinality(Registered(c)) >= 2
        /\ \E i, j \in 1..Len(seat_table[k]) :
              /\ seat_table[k][i].sNo = c /\ seat_table[k][j].sNo = c
              /\ <<seat_table[k][i].Room, seat_table[k][i].Block>>
                    # <<seat_table[k][j].Room, seat_table[k][j].Block>>

\* C5: at every point of seat allocation, and in the returned seat table, the
\* occupied seats of every block are at most the block's capacity (capacity 0
\* included).
C5_CapacityRespected ==
    /\ pc = "place" =>
          \A i \in 1..Len(room_blocks) : \A bk \in Blocks :
              /\ room_blocks[i][bk].capacity = rooms[i][bk]
              /\ Len(room_blocks[i][bk].assigned) <= rooms[i][bk]
    /\ \A k \in 1..Len(schedule) :
          outcome[k] = "ok" =>
              \A i \in 1..Len(rooms) : \A bk \in Blocks :
                  Cardinality({j \in 1..Len(seat_table[k]) :
                      /\ seat_table[k][j].Room = rooms[i].room
                      /\ seat_table[k][j].Block = bk
                      /\ seat_table[k][j].USN # NoUSN}) <= rooms[i][bk]

\* A block was filled to its capacity while its course still has students to
\* place, beside a block of capacity 0.
C5_Witness ==
    /\ pc = "place"
    /\ CurrentCourse # NoCourse
    /\ \E i \in 1..Len(room_blocks) : \E bk \in Blocks :
          /\ room_blocks[i][bk].capacity > 0
          /\ Len(room_blocks[i][bk].assigned) = room_blocks[i][bk].capacity
          /\ room_blocks[i][bk].assigned[1].sNo = CurrentCourse
    /\ \E i \in 1..Len(room_blocks) : \E bk \in Blocks : room_blocks[i][bk].capacity = 0

\* The scenario of C8: one room with A = 2 and B = 2, and a session whose one
\* course (course 3, the second session) has 3 registered students, nobody
\* being registered for anything else.
C8_Scenario ==
    /\ Len(rooms) = 1 /\ rooms[1].A = 2 /\ rooms[1].B = 2
    /\ Len(students) = 3
    /\ \A i \in 1..Len(students) : students[i].tests = {3}
    /\ schedule[2].courses = <<3>>

\* C8 as stated: the allocation of the scenario succeeds with 2 students of the
\* course in block A, 1 in block B, seat 2 of block B empty.
C8_Original ==
    (C8_Scenario /\ outcome[2] # "pending") =>
        /\ outcome[2] = "ok"
        /\ Cardinality(SeatsOf(2, rooms[1].room, "A", 3)) = 2
        /\ Cardinality(SeatsOf(2, rooms[1].room, "B", 3)) = 1
        /\ \E i \in 1..Len(seat_table[2]) :
              /\ seat_table[2][i].Block = "B" /\ seat_table[2][i].SeatNo = 2
              /\ seat_table[2][i].USN = NoUSN

\* C8 (amended): in the scenario the allocator places 2 students of the course
\* in block A, finds no candidate for the third (block B is paired with a block
\* committed to the same course) and raises the unable-to-place error: the
\* session gets no seat table.
C8_Amended ==
    (C8_Scenario /\ outcome[2] # "pending") =>
        /\ outcome[2] = "unplaceable"
        /\ seat_table[2] = <<>>
        /\ Len(room_blocks[1].A.assigned) = 2
        /\ room_blocks[1].A.sNo = 3
        /\ room_blocks[1].B.assigned = <<>>
        /\ Len(course_students[3]) = 1

C8_Witness == C8_Scenario /\ outcome[2] = "unplaceable" /\ placed = 2

\* The placement loops run to their end on fresh blocks.
RECURSIVE PlaceAllFrom(_, _, _)
PlaceAllFrom(rb, cs, order) ==
    LET cur == CurrentOf(order, cs)
    IN  IF cur = NoCourse THEN [ok |-> TRUE, rb |-> rb]
        ELSE IF Candidates(rb, cur) = <<>> THEN [ok |-> FALSE, rb |-> rb]
        ELSE LET r == PlaceInto(rb, cs, cur) IN PlaceAllFrom(r.rb, r.cs, order)

\* The seat table of session k scheduled alone.
TableAlone(k) ==
    LET studs == SelectSeq(students, LAMBDA s : s.tests \cap Range(schedule[k].courses) # {})
        cs == CourseStudentsOf(schedule[k].courses, studs)
    IN  BuildAssignments(
            PlaceAllFrom(InitialRoomBlocks, cs, CourseOrderOf(schedule[k].courses, cs)).rb)

\* C10: a session whose demand exceeds the total capacity ends in the
\* insufficient-capacity error before any student is placed (the placement loop
\* is never entered for it), contributes no rows to the seat table, and the seat
\* tables of the other sessions are those of these sessions scheduled alone.
C10_InsufficientCapacity ==
    /\ (pc = "place" /\ si <= Len(schedule)) => DemandOf(si) <= CapacityOfRooms
    /\ \A k \in 1..Len(schedule) :
          (outcome[k] # "pending" /\ DemandOf(k) > CapacityOfRooms) =>
              /\ outcome[k] \in {"insufficient", "skipped"}
              /\ seat_table[k] = <<>>
              /\ (si = k + 1 /\ pc = "main") => placed = 0
              /\ \A j \in 1..Len(schedule) :
                    (j # k /\ outcome[j] = "ok") => seat_table[j] = TableAlone(j)

\* A session failed the capacity test inside the call, and the other session
\* got its seat table with a student in it.
C10_Witness ==
    \E k, j \in 1..Len(schedule) :
        /\ outcome[k] = "insufficient" /\ DemandOf(k) > CapacityOfRooms
        /\ outcome[j] = "ok" /\ \E i \in 1..Len(seat_table[j]) : seat_table[j][i].USN # NoUSN

\* Block (i, bk) has a free seat and its paired block is not committed to course c.
OpenFor(i, bk, c) ==
    /\ Len(room_blocks[i][bk].assigned) < room_blocks[i][bk].capacity
    /\ room_blocks[i][OtherBlock(bk)].sNo # c

\* The course being placed has students left and no block is open for it.
Stuck ==
    /\ CurrentCourse # NoCourse
    /\ course_students[CurrentCourse] # <<>>
    /\ \A i \in 1..Len(room_blocks) : \A bk \in Blocks : ~OpenFor(i, bk, CurrentCourse)

\* C11: during the placement of a session, the unable-to-place error is raised
\* by a step exactly when the course being placed still has unplaced students
\* and no block with a free seat is left whose paired block is not committed to
\* that course; a session that failed so has no seat rows, and the seat tables
\* of the other sessions are those of these sessions scheduled alone.
C11_UnplaceableCourse ==
    /\ [][pc = "place" => ((outcome'[si] = "unplaceable") <=> Stuck)]_vars
    /\ [](\A k \in 1..Len(schedule) :
            outcome[k] = "unplaceable" =>
                /\ seat_table[k] = <<>>
                /\ \A j \in 1..Len(schedule) :
                      (j # k /\ outcome[j] = "ok") => seat_table[j] = TableAlone(j))

\* A session failed with the unable-to-place error after some of its students
\* had been placed, and the other session got its seat table with a student.
C11_Witness ==
    \E k, j \in 1..Len(schedule) :
        /\ outcome[k] = "unplaceable" /\ si = k + 1 /\ placed > 0
        /\ outcome[j] = "ok" /\ \E i \in 1..Len(seat_table[j]) : seat_table[j][i].USN # NoUSN

\* C18: the courses of the session being placed are processed in order of
\* descending demand, courses of equal demand in ascending order of course
\* identity, whatever their order in the input.
C18_CourseOrder ==
    pc = "place" =>
        /\ Range(course_order) = Range(schedule[si].courses)
        /\ \A i, j \in 1..Len(course_order) :
              i < j =>
                 \/ Cardinality(Registered(course_order[i]))
                       > Cardinality(Registered(course_order[j]))
                 \/ /\ Cardinality(Registered(course_order[i]))
                          = Cardinality(Registered(course_order[j]))
                    /\ course_order[i] < course_order[j]

\* The free seats of block (i, bk).
FreeSeats(i, bk) == room_blocks[i][bk].capacity - Len(room_blocks[i][bk].assigned)

\* Block (i, bk) comes before block (j, bl): earlier room, or block A of the same room.
BlockEarlier(i, bk, j, bl) == i < j \/ (i = j /\ bk = "A" /\ bl = "B")

\* C19: a placement step puts students of the course being placed into one
\* block only: a block with a free seat whose paired block is not committed to
\* the course, with the most free seats among such blocks and, among those with
\* as many, the earliest room and block A before block B; it gets the next
\* min(free seats, unplaced students) students of the course.
C19_PlacementChoice ==
    [][(pc = "place" /\ CurrentCourse # NoCourse /\ ~Stuck) =>
         \E i \in 1..Len(room_blocks) : \E bk \in Blocks :
            LET c == CurrentCourse
                m == Min2(FreeSeats(i, bk), Len(course_students[c]))
            IN  /\ OpenFor(i, bk, c)
                /\ \A j \in 1..Len(room_blocks) : \A bl \in Blocks :
                      OpenFor(j, bl, c) =>
                         \/ FreeSeats(j, bl) < FreeSeats(i, bk)
                         \/ FreeSeats(j, bl) = FreeSeats(i, bk) /\ ~BlockEarlier(j, bl, i, bk)
                /\ m >= 1
                /\ room_blocks'[i][bk].assigned =
                      room_blocks[i][bk].assigned
                         \o [k \in 1..m |-> [USN |-> course_students[c][k], sNo |-> c]]
                /\ course_students'[c] =
                      SubSeq(course_students[c], m + 1, Len(course_students[c]))
                /\ \A j \in 1..Len(room_blocks) : \A bl \in Blocks :
                      <<j, bl>> # <<i, bk>> => room_blocks'[j][bl] = room_blocks[j][bl]]_vars

\* Students were placed in block B of a room whose block A, of smaller
\* capacity, has free seats and is still empty.
C19_Witness ==
    /\ pc = "place" /\ placed > 0
    /\ \E i \in 1..Len(room_blocks) :
          /\ room_blocks[i].B.assigned # <<>>
          /\ room_blocks[i].A.assigned = <<>>
          /\ room_blocks[i].A.capacity > 0
          /\ room_blocks[i].A.capacity < room_blocks[i].B.capacity

(***************************************************************************)
(* Properties of the duty allocator and of the repair                      *)
(***************************************************************************)
Assigned(i) == invig[i].Faculty # NoFaculty

ByShift(i) == invig[i].Note.kind \in {"assigned-by-shift-from", "shifted-by-algo"}

\* norm is the coordinator of course c: equal to the coordinator's normalized
\* identity, or one contained in the other.
CoordinatorOf(norm, c) ==
    LET ic == course_info[c].ic_norm
    IN  /\ ic # <<>> /\ norm # <<>>
        /\ (ic = norm \/ IsSubstr(ic, norm) \/ IsSubstr(norm, ic))

\* The distinct rooms course c occupies in session (date, slot).
RoomsOccupied(date, slot, c) ==
    {b.room : b \in {x \in session_blocks : x.date = date /\ x.slot = slot /\ x.sNo = c}}

\* C2: after every step of the allocator and of the repair, no faculty is the
\* assigned faculty of two duty rows of the same session.
C2_DutyExclusivity ==
    \A i, j \in 1..Len(invig) :
        (i # j /\ Assigned(i) /\ Assigned(j)
            /\ invig[i].Date = invig[j].Date /\ invig[i].Slot = invig[j].Slot)
        => invig[i].Faculty # invig[j].Faculty

\* Two assigned rows of one session, one of them assigned by a committed shift.
C2_Witness ==
    \E i, j \in 1..Len(invig) :
        /\ i # j /\ Assigned(i) /\ Assigned(j) /\ ByShift(i)
        /\ invig[i].Date = invig[j].Date /\ invig[i].Slot = invig[j].Slot

\* C3: after the allocator and after every committed shift, no faculty holds
\* duties in two sessions of one date whose slots are adjacent.
C3_NoAdjacentDuties ==
    \A i, j \in 1..Len(invig) :
        (Assigned(i) /\ Assigned(j) /\ invig[i].Faculty = invig[j].Faculty
            /\ invig[i].Date = invig[j].Date)
        => /\ invig[i].Slot # invig[j].Slot + 1
           /\ invig[j].Slot # invig[i].Slot + 1

\* A shift was committed: its moved faculty and its alt both hold their new
\* duty, and the alt holds a second duty on the same date.
C3_Witness ==
    /\ resolved # <<>>
    /\ \E i, j, k \in 1..Len(invig) :
          /\ invig[i].Note.kind = "assigned-by-shift-from"
          /\ invig[j].Note.kind = "shifted-by-algo"
          /\ invig[j].Faculty = invig[i].Note.from
          /\ k # j /\ invig[k].Faculty = invig[j].Faculty
          /\ invig[k].Date = invig[j].Date

\* C6: a faculty that matches the coordinator of course c is never the assigned
\* faculty of a block of c in a session where c occupies more than 2 rooms.
C6_CoordinatorExclusion ==
    \A i \in 1..Len(invig) :
        (Assigned(i) /\ CoordinatorOf(invig[i].Faculty, invig[i].sNo))
        => Cardinality(RoomsOccupied(invig[i].Date, invig[i].Slot, invig[i].sNo)) <= 2

\* The repair is over, and a shift touched a block of a course that occupies
\* more than 2 rooms and whose coordinator matches a faculty of the roster.
C6_Witness ==
    /\ pc = "done"
    /\ \E i \in 1..Len(invig) :
          /\ ByShift(i)
          /\ Cardinality(RoomsOccupied(invig[i].Date, invig[i].Slot, invig[i].sNo)) > 2
          /\ \E n \in Range(norm_order) : CoordinatorOf(n, invig[i].sNo)

\* f holds no duty in the session of block b nor in a neighbouring slot of its date.
FreeFor(f, b) ==
    \A i \in 1..Len(invig) :
        (invig[i].Faculty = f /\ invig[i].Date = b.date)
        => invig[i].Slot \notin ({b.slot} \cup Adjacent[b.slot])

\* C7: when course c occupies at most 2 rooms in the session, a coordinator of c
\* that holds no duty in the session or next to it, no non-coordinator being
\* eligible, is assigned to the block by the allocator.
C7_CoordinatorLastResort ==
    [][(/\ pc = "alloc" /\ Len(invig) < Len(WorkList)
        /\ LET b == WorkList[Len(invig) + 1]
           IN  /\ Cardinality(RoomsOccupied(b.date, b.slot, b.sNo)) <= 2
               /\ \E f \in Range(norm_order) : CoordinatorOf(f, b.sNo) /\ FreeFor(f, b)
               /\ \A n \in Range(norm_order) : ~CoordinatorOf(n, b.sNo) => ~FreeFor(n, b))
       => LET row == invig'[Len(invig) + 1]
          IN  row.Faculty # NoFaculty /\ CoordinatorOf(row.Faculty, row.sNo)]_vars

\* C9: the allocator produces one duty row per occupied physical block: no
\* (session, room, block) has two duty rows.
C9_OneRowPerBlock ==
    \A i, j \in 1..Len(invig) :
        (invig[i].Date = invig[j].Date /\ invig[i].Slot = invig[j].Slot
            /\ invig[i].Room = invig[j].Room /\ invig[i].Block = invig[j].Block)
        => i = j

\* Some duty row names f in session (date, slot).
HoldsIn(f, date, slot) ==
    \E i \in 1..Len(invig) :
        invig[i].Faculty = f /\ invig[i].Date = date /\ invig[i].Slot = slot

\* The coordinator exclusion: f matches the coordinator of course c, and c
\* occupies more than 2 rooms in session (date, slot).
CoordExcluded(f, date, slot, c) ==
    /\ CoordinatorOf(f, c)
    /\ Cardinality(RoomsOccupied(date, slot, c)) > 2

\* The state of C12 at the row the repair is at: the row is a Slot-1 block
\* without faculty; f holds the Slot-2 duty row j of the date, holds nothing in
\* Slot-1 and is not coordinator-excluded from the row's course; g is another
\* faculty with no duty in Slot-1, Slot-2, Slot-3 of the date and is not
\* coordinator-excluded from the course of row j.
C12_Pre(f, g, j) ==
    /\ pc = "repair" /\ idx \in 1..Len(invig)
    /\ invig[idx].Faculty = NoFaculty /\ invig[idx].Slot = 1
    /\ f \in Range(norm_order) /\ g \in Range(norm_order) /\ f # g
    /\ j \in 1..Len(invig)
    /\ invig[j].Faculty = f /\ invig[j].Date = invig[idx].Date /\ invig[j].Slot = 2
    /\ ~HoldsIn(f, invig[idx].Date, 1)
    /\ ~CoordExcluded(f, invig[idx].Date, 1, invig[idx].sNo)
    /\ \A s \in 1..3 : ~HoldsIn(g, invig[idx].Date, s)
    /\ ~CoordExcluded(g, invig[idx].Date, 2, invig[j].sNo)

C12_PreSome == \E f, g \in Range(norm_order) : \E j \in 1..Len(invig) : C12_Pre(f, g, j)

C13_Scenario ==
    /\ Len(norm_order) = 1
    /\ Cardinality(session_blocks) = 2
    /\ \A x, y \in session_blocks : x.date = y.date /\ x.slot = y.slot

\* Block x comes before block y in (room, block, course) order.
RoomBlockCourseBefore(x, y) ==
    \/ x.room < y.room
    \/ x.room = y.room /\ x.block = "A" /\ y.block = "B"
    \/ x.room = y.room /\ x.block = y.block /\ x.sNo < y.sNo

\* C13: in the scenario the allocator gives the faculty to the first block in
\* (room, block, course) order and records the second block as unassigned, and
\* the repair leaves both rows, the assigned slots and the loads as they are.
C13_SingleFaculty ==
    C13_Scenario =>
        /\ Len(invig) >= 1 =>
              /\ invig[1].Faculty = norm_order[1]
              /\ invig[1].Note.kind = ""
              /\ \E x, y \in session_blocks :
                    /\ RoomBlockCourseBefore(x, y)
                    /\ invig[1].Room = x.room /\ invig[1].Block = x.block
                    /\ invig[1].sNo = x.sNo
        /\ Len(invig) >= 2 =>
              /\ invig[2].Faculty = NoFaculty
              /\ invig[2].Note.kind = "unassigned-strict"
        /\ pc \in {"repair", "done"} =>
              /\ Len(invig) = 2
              /\ resolved = <<>>
              /\ assigned_slots[norm_order[1]] = {<<invig[1].Date, invig[1].Slot>>}
              /\ faculty_load[norm_order[1]] = 1

\* The repair is at a row without faculty.
AtUnassignedRow ==
    pc = "repair" /\ idx \in 1..Len(invig) /\ invig[idx].Faculty = NoFaculty

\* C14: the one loop whose order is that of an unordered set (the neighbouring
\* slots of ADJACENT[slot], lines 283-284) gives the same result in either
\* order: at every row the repair attempts, the shift found (or its absence) is
\* the same, so identical inputs give identical duty tables.
C14_OrderIndependent ==
    AtUnassignedRow =>
        FindShift(invig, assigned_slots, invig[idx].Date, invig[idx].Slot,
                  invig[idx].sNo, TRUE)
        = FindShift(invig, assigned_slots, invig[idx].Date, invig[idx].Slot,
                    invig[idx].sNo, FALSE)

\* The repair is at a row for which a faculty is kept away by duties in both
\* neighbouring slots, so that the two orders of the loop differ.
C14_Witness ==
    /\ AtUnassignedRow
    /\ \E n \in Range(norm_order) :
          /\ IsPossibleCandidate(assigned_slots, n, invig[idx].Date, invig[idx].Slot,
                                 invig[idx].sNo)
          /\ BlockingAdjs(assigned_slots, n, invig[idx].Date, invig[idx].Slot, TRUE)
                # BlockingAdjs(assigned_slots, n, invig[idx].Date, invig[idx].Slot, FALSE)

\* The allocator is about to process a block with students: the next of its work list.
AtBlock == pc = "alloc" /\ Len(invig) < Len(WorkList) /\ WorkList[Len(invig) + 1].count > 0

NextBlock == WorkList[Len(invig) + 1]

\* f passes the eligibility test for block b: no duty in the session of b, none
\* in a neighbouring slot of its date, and not coordinator-excluded from its course.
PassesTest(f, b) ==
    /\ ~HoldsIn(f, b.date, b.slot)
    /\ \A adj \in Adjacent[b.slot] : ~HoldsIn(f, b.date, adj)
    /\ ~CoordExcluded(f, b.date, b.slot, b.sNo)

\* C15: the allocator records a block with students as unassigned exactly when
\* no faculty of the roster passes the eligibility test at that moment;
\* otherwise the block gets a faculty.
C15_UnassignedIffNoneEligible ==
    [][AtBlock =>
         LET row == invig'[Len(invig) + 1]
         IN  /\ (row.Faculty = NoFaculty)
                   <=> (\A f \in Range(norm_order) : ~PassesTest(f, NextBlock))
             /\ (row.Faculty = NoFaculty) <=> (row.Note.kind = "unassigned-strict")]_vars

\* The Load of n after the first k duty rows: the rows among them that name n.
LoadAfter(n, k) == Cardinality({i \in 1..k : invig[i].Faculty = n})

\* C16: whenever the allocator assigns a block directly, the faculty it picks
\* is a candidate of the set it chose (the eligible non-coordinators, or the
\* eligible coordinators when there is none) and every other candidate of that
\* set has a larger Load, or the same Load and a larger normalized identity.
C16_SmallestLoadThenName ==
    [][AtBlock =>
         LET row == invig'[Len(invig) + 1]
             cands == Range(CandidatesOf(EligibleFor(NextBlock), NextBlock.sNo))
         IN  row.Faculty # NoFaculty =>
                /\ row.Faculty \in cands
                /\ row.Note.kind = ""
                /\ \A n \in cands \ {row.Faculty} :
                      \/ LoadAfter(row.Faculty, Len(invig)) < LoadAfter(n, Len(invig))
                      \/ /\ LoadAfter(row.Faculty, Len(invig)) = LoadAfter(n, Len(invig))
                         /\ StrLess(row.Faculty, n)]_vars

\* A block went to a faculty of smaller Load although a faculty of smaller
\* name, free on the whole date until then, was a candidate too.
C16_Witness ==
    \E k \in 1..Len(invig) : \E n \in Range(norm_order) :
        /\ invig[k].Faculty # NoFaculty /\ invig[k].Note.kind = ""
        /\ StrLess(n, invig[k].Faculty)
        /\ LoadAfter(n, k - 1) > LoadAfter(invig[k].Faculty, k - 1)
        /\ \A i \in 1..(k - 1) :
              invig[i].Faculty = n =>
                 invig[i].Slot \notin ({invig[k].Slot} \cup Adjacent[invig[k].Slot])
        /\ \A c \in DOMAIN course_info : course_info[c].ic_norm = NoFaculty

\* C17: the allocator gives a block to a faculty that matches the coordinator
\* of the block's course only when, at that moment, no faculty that does not
\* match the coordinator passes the eligibility test for the block.
C17_CoordinatorOnlyAsLastResort ==
    [][AtBlock =>
         LET row == invig'[Len(invig) + 1]
         IN  (row.Faculty # NoFaculty /\ CoordinatorOf(row.Faculty, NextBlock.sNo))
                => \A n \in Range(norm_order) :
                      ~CoordinatorOf(n, NextBlock.sNo) => ~PassesTest(n, NextBlock)]_vars

\* The repair visits the rows once, in order.
VisitedOnce == (pc = "repair" /\ pc' = "repair") => idx' = idx + 1

\* C20 as stated: each row is attempted at most once, and no repair step
\* changes a row that has a faculty or that was left without one by its attempt.
C20_Original ==
    [][pc = "repair" =>
         /\ VisitedOnce
         /\ \A i \in 1..Len(invig) :
               (invig[i].Faculty # NoFaculty \/ i < idx) => invig'[i] = invig[i]]_vars

\* C20 (amended): each row is attempted at most once and a row left without
\* faculty by its attempt is never changed afterwards; a row that has a faculty
\* is changed by a later repair step only as the target of a committed shift,
\* which replaces its faculty by the alt and notes it shifted-by-repair, the
\* row keeping its block and course.
C20_Amended ==
    [][pc = "repair" =>
         /\ VisitedOnce
         /\ Len(invig') = Len(invig)
         /\ \A i \in 1..Len(invig) :
               /\ (invig[i].Faculty = NoFaculty /\ i < idx) => invig'[i] = invig[i]
               /\ (invig[i].Faculty # NoFaculty /\ invig'[i] # invig[i]) =>
                     /\ invig'[i].Faculty \notin {NoFaculty, invig[i].Faculty}
                     /\ invig'[i].Note.kind = "shifted-by-algo"
                     /\ invig'[i] = [invig[i] EXCEPT !.Faculty = invig'[i].Faculty,
                                                     !.Note = invig'[i].Note]
                     /\ invig[idx].Faculty = NoFaculty
                     /\ invig'[idx].Faculty = invig[i].Faculty
                     /\ invig'[idx].Note =
                           [kind |-> "assigned-by-shift-from", from |-> invig'[i].Faculty]]_vars

\* The repair is over: a row assigned by the allocator was given to an alt by a
\* shift, and another row was left without faculty.
C20_Witness ==
    /\ pc = "done"
    /\ \E i, j \in 1..Len(invig) :
          /\ invig[i].Note.kind = "shifted-by-algo" /\ invig[i].Faculty # NoFaculty
          /\ invig[j].Faculty = NoFaculty

\* The step commits a shift: attempt_one_hop_shifts appends it to its list.
ShiftCommitted == pc = "repair" /\ Len(resolved') = Len(resolved) + 1

\* C21: a committed shift for the unassigned row of session s, with blocked
\* faculty f, adjacent session s2 and alt g, changes exactly this: s2 leaves the
\* assigned slots of f and enters those of g, s enters those of f, the duty row
\* of f in s2 names g (shifted-by-repair) and the unassigned row names f
\* (assigned-by-shift); the assigned slots of every other faculty and every
\* other duty row are as before.
C21_ShiftFrame ==
    [][ShiftCommitted =>
         LET sh == resolved'[Len(resolved')]
             date == sh[1]
             s == sh[2]
             f == sh[3]
             s2 == sh[4]
             g == sh[5]
             frows == {j \in 1..Len(invig) :
                         /\ invig[j].Date = date /\ invig[j].Slot = s2
                         /\ invig[j].Faculty = f}
         IN  /\ f # g /\ f # NoFaculty /\ g # NoFaculty /\ s2 \in Adjacent[s]
             /\ invig[idx].Faculty = NoFaculty
             /\ invig[idx].Date = date /\ invig[idx].Slot = s
             /\ <<date, s2>> \in assigned_slots[f] /\ <<date, s>> \notin assigned_slots[f]
             /\ <<date, s2>> \notin assigned_slots[g]
             /\ assigned_slots'[f] = (assigned_slots[f] \ {<<date, s2>>}) \cup {<<date, s>>}
             /\ assigned_slots'[g] = assigned_slots[g] \cup {<<date, s2>>}
             /\ \A n \in DOMAIN assigned_slots \ {f, g} : assigned_slots'[n] = assigned_slots[n]
             /\ DOMAIN assigned_slots' = DOMAIN assigned_slots
             /\ Cardinality(frows) = 1
             /\ Len(invig') = Len(invig)
             /\ \A j \in 1..Len(invig) :
                   IF j = idx
                   THEN invig'[j] = [invig[j] EXCEPT
                            !.Faculty = f,
                            !.Note = [kind |-> "assigned-by-shift-from", from |-> g]]
                   ELSE IF j \in frows
                   THEN invig'[j] = [invig[j] EXCEPT
                            !.Faculty = g,
                            !.Note = [kind |-> "shifted-by-algo", from |-> NoFaculty]]
                   ELSE invig'[j] = invig[j]]_vars

\* A shift was committed beside a faculty that is neither the moved one nor the
\* alt and holds duties, and beside duty rows of a third session.
C21_Witness ==
    /\ resolved # <<>>
    /\ LET sh == resolved[Len(resolved)]
       IN  /\ \E n \in Range(norm_order) \ {sh[3], sh[5]} : assigned_slots[n] # {}
           /\ \E j \in 1..Len(invig) : invig[j].Slot \notin {sh[2], sh[4]}

\* The repair finds no (candidate, alt) pair for the row it is at.
NoPairFound ==
    /\ AtUnassignedRow
    /\ ~FindShift(invig, assigned_slots, invig[idx].Date, invig[idx].Slot,
                  invig[idx].sNo, FALSE).found

\* C22: an attempt of the repair that finds no (candidate, alt) pair for its
\* row leaves the state as it was: the row stays without faculty, and the
\* assigned slots, the loads, every duty row and the list of shifts are those
\* of before the attempt; the repair moves to the next row.
C22_FailedAttemptFrame ==
    [][NoPairFound =>
         /\ invig' = invig
         /\ invig'[idx].Faculty = NoFaculty
         /\ assigned_slots' = assigned_slots
         /\ faculty_load' = faculty_load
         /\ resolved' = resolved
         /\ idx' = idx + 1]_vars

\* The repair has just passed a row it left without faculty although a faculty
\* of the roster was kept from it only by a duty in a neighbouring slot.
C22_Witness ==
    /\ pc = "repair" /\ idx \in 2..(Len(invig) + 1)
    /\ invig[idx - 1].Faculty = NoFaculty
    /\ invig[idx - 1].Note.kind = "unassigned-strict"
    /\ \E n \in Range(norm_order) :
          IsPossibleCandidate(assigned_slots, n, invig[idx - 1].Date,
                              invig[idx - 1].Slot, invig[idx - 1].sNo)

\* The duty rows that name n as assigned faculty.
DutiesOf(n) == {i \in 1..Len(invig) : invig[i].Faculty = n}

AfterAllocator == pc = "repair" /\ idx = 1

AfterRepair == pc = "done"

\* The part of C23 about the allocator: when allocate_strict returns, the load
\* of each faculty is the number of duty rows that name it.
LoadMatchesAfterAllocator ==
    AfterAllocator =>
        \A n \in Range(norm_order) : faculty_load[n] = Cardinality(DutiesOf(n))

\* C23: after the allocator and after the repair, the load of each faculty is
\* the number of duty rows that name it as assigned faculty.
C23_LoadMatchesDuties ==
    (AfterAllocator \/ AfterRepair) =>
        \A n \in Range(norm_order) : faculty_load[n] = Cardinality(DutiesOf(n))

\* C24: within the seat table of a session, all occupied seats of a block hold
\* students of one course, the course the block was committed to on its first
\* placement: during the placement every student of a block is of the block's
\* committed course, and the rows of a block in a returned table name one course.
C24_OneCoursePerBlock ==
    /\ pc = "place" =>
          \A i \in 1..Len(room_blocks) : \A bk \in Blocks :
              \A k \in 1..Len(room_blocks[i][bk].assigned) :
                  room_blocks[i][bk].assigned[k].sNo = room_blocks[i][bk].sNo
    /\ \A k \in 1..Len(schedule) :
          outcome[k] = "ok" =>
              \A i, j \in 1..Len(seat_table[k]) :
                  (/\ seat_table[k][i].USN # NoUSN /\ seat_table[k][j].USN # NoUSN
                   /\ seat_table[k][i].Room = seat_table[k][j].Room
                   /\ seat_table[k][i].Block = seat_table[k][j].Block)
                  => seat_table[k][i].sNo = seat_table[k][j].sNo

\* The sessions in which some duty row names n.
SessionsOf(n) == {<<invig[i].Date, invig[i].Slot>> : i \in DutiesOf(n)}

\* C25: after every step of the allocator and of the repair, the assigned
\* slots of each faculty are exactly the sessions in which some duty row names
\* it: no session stays behind after a shift, no duty is held without its session.
C25_AssignedSlotsMatchDuties ==
    pc \in {"alloc", "repair", "done"} =>
        \A n \in Range(norm_order) : assigned_slots[n] = SessionsOf(n)

\* The repair is over and a shift moved a faculty out of a session: the moved
\* faculty holds its new session and no longer the old one, which the alt holds.
C25_Witness ==
    /\ pc = "done" /\ resolved # <<>>
    /\ \E k \in 1..Len(resolved) :
          /\ <<resolved[k][1], resolved[k][2]>> \in assigned_slots[resolved[k][3]]
          /\ <<resolved[k][1], resolved[k][4]>> \notin assigned_slots[resolved[k][3]]
          /\ <<resolved[k][1], resolved[k][4]>> \in assigned_slots[resolved[k][5]]

\* Row i is the duty row of a block handed to the allocator with no occupied seat.
OfEmptyBlock(i) ==
    \E b \in session_blocks :
        /\ b.count <= 0
        /\ b.date = invig[i].Date /\ b.slot = invig[i].Slot /\ b.sNo = invig[i].sNo
        /\ b.room = invig[i].Room /\ b.block = invig[i].Block

\* The part of C26 about the allocator: until the repair starts, the row of a
\* block without occupied seat has no faculty and the note no-students.
EmptyBlockAfterAllocator ==
    (pc = "alloc" \/ AfterAllocator) =>
        \A i \in 1..Len(invig) :
            OfEmptyBlock(i) =>
                invig[i].Faculty = NoFaculty /\ invig[i].Note.kind = "no-students"

WithFaculty(rows) == Cardinality({i \in 1..Len(rows) : rows[i].Faculty # NoFaculty})

\* C27: during the repair a row that has a faculty never becomes unassigned,
\* each committed shift raises the number of rows with a faculty by exactly
\* one, and no other step changes it: the number of unassigned rows never grows.
C27_RepairOnlyAddsFaculty ==
    [][pc = "repair" =>
         /\ Len(invig') = Len(invig)
         /\ \A i \in 1..Len(invig) :
               invig[i].Faculty # NoFaculty => invig'[i].Faculty # NoFaculty
         /\ ShiftCommitted => WithFaculty(invig') = WithFaculty(invig) + 1
         /\ ~ShiftCommitted => WithFaculty(invig') = WithFaculty(invig)]_vars

\* The repair is over after two committed shifts.
C27_Witness == pc = "done" /\ Len(resolved) >= 2

\* f is, by equality of normalized names, the coordinator of course c.
ExactCoordinator(f, c) ==
    course_info[c].ic_norm # NoFaculty /\ course_info[c].ic_norm = f

Unplaced == TotalNeeded(course_students)

\* C29: the seat allocator terminates: an iteration of the placement loop that
\* stays in the loop has placed at least one student of the course it was at,
\* the loop is left only with every student placed (the seat table is returned)
\* or with the unable-to-place error, and every session whose placement begins
\* comes to that end.
C29_SeatAllocatorTerminates ==
    /\ [][(pc = "place" /\ pc' = "place") =>
            /\ placed' >= placed + 1
            /\ Len(course_students'[CurrentCourse]) < Len(course_students[CurrentCourse])
            /\ Unplaced' < Unplaced]_vars
    /\ [][(pc = "place" /\ pc' # "place") =>
            /\ pc' = "main" /\ si' = si + 1
            /\ outcome'[si] \in {"ok", "unplaceable"}
            /\ (outcome'[si] = "ok") <=> (Unplaced = 0)]_vars
    /\ [](pc = "place" => <>(pc = "main"))
    /\ <>(pc = "scheduled" /\ \A k \in 1..Len(schedule) : outcome[k] # "pending")

\* A session came to its end after a placement loop of three iterations or more.
C29_Witness ==
    /\ pc = "main" /\ si > 1 /\ outcome[si - 1] \in {"ok", "unplaceable"}
    /\ placed >= 2
    /\ Cardinality({<<seat_table[si - 1][i].Room, seat_table[si - 1][i].Block>>
                      : i \in {j \in 1..Len(seat_table[si - 1]) :
                                  seat_table[si - 1][j].USN # NoUSN}}) >= 3

\* Rows x and y of the duty table are in (slot index, room, block, course) order.
InSessionOrder(x, y) ==
    \/ x.Slot < y.Slot
    \/ x.Slot = y.Slot /\ x.Room < y.Room
    \/ x.Slot = y.Slot /\ x.Room = y.Room /\ BlockIndex(x.Block) < BlockIndex(y.Block)
    \/ x.Slot = y.Slot /\ x.Room = y.Room /\ x.Block = y.Block /\ x.sNo < y.sNo

\* The duty rows are in ascending order of the text of their date, then of
\* slot index, room, block and course: the order the allocator sorts by.
RowsInTextOrder ==
    \A i, j \in 1..Len(invig) :
        i < j =>
           \/ StrLess(DateText[invig[i].Date], DateText[invig[j].Date])
           \/ invig[i].Date = invig[j].Date /\ InSessionOrder(invig[i], invig[j])

\* C30: the allocator processes the sessions in ascending (date, slot index)
\* order and the blocks of a session in ascending (room, block, course) order:
\* at every moment the duty rows written so far are the first blocks in that
\* order, and the duty table the repair goes through has one row per block, in
\* that order.
C30_ProcessingOrder ==
    /\ \A i, j \in 1..Len(invig) :
          i < j =>
             \/ ParsedDate(invig[i].Date) < ParsedDate(invig[j].Date)
             \/ invig[i].Date = invig[j].Date /\ InSessionOrder(invig[i], invig[j])
    /\ pc \in {"repair", "done"} => Len(invig) = Cardinality(session_blocks)
    /\ \A i \in 1..Len(invig) :
          \E b \in session_blocks :
              /\ b.date = invig[i].Date /\ b.slot = invig[i].Slot /\ b.sNo = invig[i].sNo
              /\ b.room = invig[i].Room /\ b.block = invig[i].Block

====
